---- MODULE Spec2Model ----
(***************************************************************************)
(* Terminal flashcards (src/flashcards/app.py) as a state machine.         *)
(*                                                                         *)
(* A state is the position of the single control flow at one of its        *)
(* blocking input() calls, the in-memory `data` object, the content of     *)
(* flashcards.json, and the locals that are live at that prompt.  One      *)
(* action is one line read at one prompt together with everything the code *)
(* runs until the next input() call (or until the process ends).           *)
(*                                                                         *)
(* Text is a sequence of one-character strings, so that strip(), lower(),  *)
(* isdigit(), int() and sorted() are computed as Python computes them.     *)
(* A Python/JSON value is a tagged record; an exception that leaves an     *)
(* expression is the value Raise(name), which every operation propagates.  *)
(***************************************************************************)
EXTENDS Integers, Sequences, FiniteSets, TLC

(***************************************************************************)
(* Bounds of the model                                                     *)
(***************************************************************************)
\* most cards the registry holds before add_card is no longer offered
MaxCards == 2

(***************************************************************************)
(* Text                                                                    *)
(***************************************************************************)
\* the characters used by the model, in code point order
Alphabet ==
  << " ", "0", "1", "2", "3", "4", "5", "9", "E", "N", "O", "S", "Y",
     "a", "b", "c", "d", "e", "f", "i", "k", "l", "n", "o", "p", "q",
     "r", "s", "t", "x", "y" >>

Ord(c) == CHOOSE i \in 1..Len(Alphabet) : Alphabet[i] = c

IsSpace(c) == c = " "

RECURSIVE LStrip(_)
LStrip(s) ==
  IF s = <<>> THEN <<>>
  ELSE IF IsSpace(Head(s)) THEN LStrip(Tail(s)) ELSE s

RECURSIVE RStrip(_)
RStrip(s) ==
  IF s = <<>> THEN <<>>
  ELSE IF IsSpace(s[Len(s)]) THEN RStrip(SubSeq(s, 1, Len(s) - 1)) ELSE s

\* str.strip()
Strip(s) == RStrip(LStrip(s))

LowerChar(c) ==
  CASE c = "E" -> "e"
    [] c = "N" -> "n"
    [] c = "O" -> "o"
    [] c = "S" -> "s"
    [] c = "Y" -> "y"
    [] OTHER -> c

\* str.lower()
Lower(s) == [i \in 1..Len(s) |-> LowerChar(s[i])]

Digits == <<"0", "1", "2", "3", "4", "5", "6", "7", "8", "9">>

IsDigitChar(c) == \E i \in 1..10 : Digits[i] = c

DigitVal(c) == (CHOOSE i \in 1..10 : Digits[i] = c) - 1

\* str.isdigit(): non-empty and every character a digit
IsDigit(s) == s # <<>> /\ \A i \in 1..Len(s) : IsDigitChar(s[i])

\* int(s) of a digit string
RECURSIVE ToInt(_)
ToInt(s) ==
  IF s = <<>> THEN 0
  ELSE 10 * ToInt(SubSeq(s, 1, Len(s) - 1)) + DigitVal(s[Len(s)])

\* s < t in Python's string order (code points, then length)
RECURSIVE StrLess(_, _)
StrLess(s, t) ==
  IF t = <<>> THEN FALSE
  ELSE IF s = <<>> THEN TRUE
  ELSE IF Head(s) = Head(t) THEN StrLess(Tail(s), Tail(t))
  ELSE Ord(Head(s)) < Ord(Head(t))

\* `q in s` for strings: q is a contiguous substring of s
Contains(q, s) ==
  \E i \in 0..(Len(s) - Len(q)) : SubSeq(s, i + 1, i + Len(q)) = q

(***************************************************************************)
(* Python values as decoded from / encoded to JSON                         *)
(***************************************************************************)
JNull == [t |-> "null", s |-> <<>>, xs |-> <<>>, kv |-> <<>>]
JStr(s) == [t |-> "str", s |-> s, xs |-> <<>>, kv |-> <<>>]
JArr(xs) == [t |-> "arr", s |-> <<>>, xs |-> xs, kv |-> <<>>]
\* a dict: the sequence of <<key, value>> pairs in insertion order
JObj(kv) == [t |-> "obj", s |-> <<>>, xs |-> <<>>, kv |-> kv]
\* an exception propagating out of an expression
Raise(e) == [t |-> "raise", s |-> <<e>>, xs |-> <<>>, kv |-> <<>>]

IsRaise(v) == v.t = "raise"

Keys(o) == [i \in 1..Len(o.kv) |-> o.kv[i][1]]

KeySet(o) == {o.kv[i][1] : i \in 1..Len(o.kv)}

HasKey(o, k) == \E i \in 1..Len(o.kv) : o.kv[i][1] = k

KeyIndex(o, k) == CHOOSE i \in 1..Len(o.kv) : o.kv[i][1] = k

\* v[k] for a string key k
GetItem(v, k) ==
  IF IsRaise(v) THEN v
  ELSE IF v.t = "obj"
       THEN IF HasKey(v, k) THEN v.kv[KeyIndex(v, k)][2] ELSE Raise("KeyError")
  ELSE Raise("TypeError")

\* o[k] = x on a dict: replaces in place, or appends a new key
SetItem(o, k, x) ==
  IF HasKey(o, k)
  THEN JObj([o.kv EXCEPT ![KeyIndex(o, k)] = <<k, x>>])
  ELSE JObj(Append(o.kv, <<k, x>>))

\* a del that drops the oldest key instead of k
DelItemFirst(o, k) == JObj(Tail(o.kv))

\* del o[k] on a dict that has the key
DelItem(o, k) ==
  JObj(SubSeq(o.kv, 1, KeyIndex(o, k) - 1)
       \o SubSeq(o.kv, KeyIndex(o, k) + 1, Len(o.kv)))

\* len(v)
PyLen(v) ==
  CASE v.t = "obj" -> Len(v.kv)
    [] v.t = "arr" -> Len(v.xs)
    [] v.t = "str" -> Len(v.s)
    [] OTHER -> -1

\* the items `for c in v` / list(v) yields
Items(v) ==
  CASE v.t = "obj" -> [i \in 1..Len(v.kv) |-> JStr(v.kv[i][1])]
    [] v.t = "arr" -> v.xs
    [] v.t = "str" -> [i \in 1..Len(v.s) |-> JStr(<<v.s[i]>>)]
    [] OTHER -> <<>>

Iterable(v) == v.t \in {"obj", "arr", "str"}

\* a == b in Python: dicts compare by key set and values, lists by position
RECURSIVE PyEq(_, _)
PyEq(a, b) ==
  IF a.t # b.t THEN FALSE
  ELSE CASE a.t = "str" -> a.s = b.s
         [] a.t = "arr" ->
              /\ Len(a.xs) = Len(b.xs)
              /\ \A i \in 1..Len(a.xs) : PyEq(a.xs[i], b.xs[i])
         [] a.t = "obj" ->
              /\ KeySet(a) = KeySet(b)
              /\ \A k \in KeySet(a) : PyEq(GetItem(a, k), GetItem(b, k))
         [] OTHER -> TRUE

K_collections == <<"c", "o", "l", "l", "e", "c", "t", "i", "o", "n", "s">>
K_cards == <<"c", "a", "r", "d", "s">>
K_id == <<"i", "d">>
K_front == <<"f", "r", "o", "n", "t">>
K_back == <<"b", "a", "c", "k">>

default_data == JObj(<< <<K_collections, JObj(<<>>)>> >>)

(***************************************************************************)
(* JSON text: json.dump and json.load                                      *)
(***************************************************************************)
Tok(k) == [k |-> k, s |-> <<>>]
TStr(s) == [k |-> "str", s |-> s]

RECURSIVE Dump(_)
RECURSIVE DumpMembers(_, _)
RECURSIVE DumpElements(_, _)
\* the tokens json.dump writes for v
Dump(v) ==
  CASE v.t = "obj" -> <<Tok("{")>> \o DumpMembers(v.kv, 1) \o <<Tok("}")>>
    [] v.t = "arr" -> <<Tok("[")>> \o DumpElements(v.xs, 1) \o <<Tok("]")>>
    [] v.t = "str" -> <<TStr(v.s)>>
    [] OTHER -> <<Tok("null")>>

DumpMembers(kv, i) ==
  IF i > Len(kv) THEN <<>>
  ELSE (IF i > 1 THEN <<Tok(",")>> ELSE <<>>)
       \o <<TStr(kv[i][1]), Tok(":")>> \o Dump(kv[i][2])
       \o DumpMembers(kv, i + 1)

DumpElements(xs, i) ==
  IF i > Len(xs) THEN <<>>
  ELSE (IF i > 1 THEN <<Tok(",")>> ELSE <<>>)
       \o Dump(xs[i]) \o DumpElements(xs, i + 1)

ParseFail == [ok |-> FALSE, val |-> JNull, next |-> 0]

TokAt(toks, i) == IF i <= Len(toks) THEN toks[i].k ELSE "eof"

RECURSIVE ParseValue(_, _)
RECURSIVE ParseMembers(_, _, _)
RECURSIVE ParseElements(_, _, _)
\* the value that starts at token i, and the position after it
ParseValue(toks, i) ==
  CASE TokAt(toks, i) = "str" ->
         [ok |-> TRUE, val |-> JStr(toks[i].s), next |-> i + 1]
    [] TokAt(toks, i) = "null" ->
         [ok |-> TRUE, val |-> JNull, next |-> i + 1]
    [] TokAt(toks, i) = "{" ->
         IF TokAt(toks, i + 1) = "}"
         THEN [ok |-> TRUE, val |-> JObj(<<>>), next |-> i + 2]
         ELSE ParseMembers(toks, i + 1, JObj(<<>>))
    [] TokAt(toks, i) = "[" ->
         IF TokAt(toks, i + 1) = "]"
         THEN [ok |-> TRUE, val |-> JArr(<<>>), next |-> i + 2]
         ELSE ParseElements(toks, i + 1, <<>>)
    [] OTHER -> ParseFail

\* key : value pairs from token i on; a repeated key keeps its last value
ParseMembers(toks, i, acc) ==
  IF TokAt(toks, i) = "str" /\ TokAt(toks, i + 1) = ":"
  THEN LET r == ParseValue(toks, i + 2) IN
       IF ~r.ok THEN ParseFail
       ELSE LET acc2 == SetItem(acc, toks[i].s, r.val) IN
            CASE TokAt(toks, r.next) = "," -> ParseMembers(toks, r.next + 1, acc2)
              [] TokAt(toks, r.next) = "}" ->
                   [ok |-> TRUE, val |-> acc2, next |-> r.next + 1]
              [] OTHER -> ParseFail
  ELSE ParseFail

ParseElements(toks, i, acc) ==
  LET r == ParseValue(toks, i) IN
  IF ~r.ok THEN ParseFail
  ELSE CASE TokAt(toks, r.next) = "," ->
              ParseElements(toks, r.next + 1, Append(acc, r.val))
         [] TokAt(toks, r.next) = "]" ->
              [ok |-> TRUE, val |-> JArr(Append(acc, r.val)), next |-> r.next + 1]
         [] OTHER -> ParseFail

\* json.load: one value and nothing after it, else JSONDecodeError
json_load(toks) ==
  LET r == ParseValue(toks, 1) IN
  IF r.ok /\ r.next = Len(toks) + 1 THEN r.val ELSE Raise("JSONDecodeError")

(***************************************************************************)
(* Storage: flashcards.json, load_data, save_data                          *)
(***************************************************************************)
\* The file is absent, a path open() refuses with OSError (for reading and
\* for writing alike, e.g. a directory), bytes that are not UTF-8, or text.
File(st, toks) == [st |-> st, toks |-> toks]

TextFile(toks) == File("text", toks)

\* a load_data whose test for the "collections" key is inverted
load_data_inverted(d) ==
  IF d.st = "absent" THEN default_data
  ELSE IF d.st = "unopenable" THEN default_data
  ELSE IF d.st = "badutf8" THEN Raise("UnicodeDecodeError")
  ELSE LET v == json_load(d.toks) IN
       IF IsRaise(v) THEN default_data
       ELSE IF v.t # "obj" \/ HasKey(v, K_collections) THEN default_data
       ELSE v

\* lines 17-27: the value load_data returns for file d, or the exception
load_data(d) ==
  IF d.st = "absent" THEN default_data
  ELSE IF d.st = "unopenable" THEN default_data
  ELSE IF d.st = "badutf8" THEN Raise("UnicodeDecodeError")
  ELSE LET v == json_load(d.toks) IN
       IF IsRaise(v) THEN default_data
       ELSE IF v.t # "obj" \/ ~HasKey(v, K_collections) THEN default_data
       ELSE v

\* How one call of save_data can end: written in full, refused by open(),
\* or cut short by an error after open() has truncated the file.
SaveOk == [kind |-> "ok", cut |-> 0]
OpenFail == [kind |-> "open_fail", cut |-> 0]
WriteFail(c) == [kind |-> "write_fail", cut |-> c]

\* Where a failed write of the text toks can stop, open(.., "w") having
\* emptied the file: after any number of its tokens short of all of them.
Cuts(toks) == 0..(Len(toks) - 1)

SaveOutcomes(d, toks) ==
  IF d.st = "unopenable" THEN {OpenFail}
  ELSE {SaveOk, OpenFail} \cup {WriteFail(c) : c \in Cuts(toks)}

\* a save_data that returns without having written
save_data_skipped(d, toks, o) == d

\* the file after save_data, writing the text toks, ends as outcome o
save_data(d, toks, o) ==
  CASE o.kind = "ok" -> TextFile(toks)
    [] o.kind = "write_fail" ->
         TextFile(IF o.cut = 0 THEN <<>> ELSE SubSeq(toks, 1, o.cut))
    [] OTHER -> d

(***************************************************************************)
(* Helpers (UI)                                                            *)
(***************************************************************************)
\* one line read by prompt_int: accepted with its value, or asked again
prompt_int(line, lo, hi) ==
  LET s == Strip(line)
      v == ToInt(s)
  IN IF IsDigit(s) /\ lo <= v /\ v <= hi
     THEN [ok |-> TRUE, v |-> v]
     ELSE [ok |-> FALSE, v |-> 0]

\* a prompt_nonempty that does not strip
prompt_unstripped(line) == line

\* one line read by prompt_nonempty: the stripped text, <<>> meaning ask again
prompt_nonempty(line) == Strip(line)

Yes == {<<"y">>, <<"y", "e", "s">>}
No == {<<"n">>, <<"n", "o">>}
Skip == {<<"s">>, <<"s", "k", "i", "p">>}
Quit == {<<"q">>, <<"q", "u", "i", "t">>}

\* a confirm that takes every recognised answer for a yes
confirm_either(line) ==
  LET s == Lower(Strip(line)) IN
  IF s \in Yes \cup No THEN "yes" ELSE "again"

\* one line read by confirm
confirm(line) ==
  LET s == Lower(Strip(line)) IN
  IF s \in Yes THEN "yes" ELSE IF s \in No THEN "no" ELSE "again"

\* one line read by select_from_list over a non-empty list of names
select_from_list(line, items) ==
  LET r == prompt_int(line, 0, Len(items)) IN
  IF ~r.ok THEN [again |-> TRUE, none |-> FALSE, val |-> <<>>]
  ELSE IF r.v = 0 THEN [again |-> FALSE, none |-> TRUE, val |-> <<>>]
  ELSE [again |-> FALSE, none |-> FALSE, val |-> items[r.v]]

(***************************************************************************)
(* Domain operations on the data object                                    *)
(***************************************************************************)
\* sorted(data["collections"].keys()): the sequence of names, or an exception
list_collections(d) ==
  LET cols == GetItem(d, K_collections) IN
  IF IsRaise(cols) THEN cols
  ELSE IF cols.t # "obj" THEN Raise("AttributeError")
  ELSE JArr([i \in 1..Len(cols.kv) |->
               JStr(SortSeq(Keys(cols), StrLess)[i])])

Names(d) == [i \in 1..Len(list_collections(d).xs) |-> list_collections(d).xs[i].s]

get_cards(d, col) == GetItem(GetItem(GetItem(d, K_collections), col), K_cards)

\* `not v`
Falsy(v) == v.t = "null" \/ PyLen(v) = 0

\* data after data["collections"][col]["cards"] has become cs
WithCards(d, col, cs) ==
  LET cols == GetItem(d, K_collections) IN
  SetItem(d, K_collections,
          SetItem(cols, col, SetItem(GetItem(cols, col), K_cards, cs)))

NewCard(id, f, b) ==
  JObj(<< <<K_id, JStr(id)>>, <<K_front, JStr(f)>>, <<K_back, JStr(b)>> >>)

\* the first exception among vs, or JNull
RECURSIVE FirstRaise(_)
FirstRaise(vs) ==
  IF vs = <<>> THEN JNull
  ELSE IF IsRaise(Head(vs)) THEN Head(vs) ELSE FirstRaise(Tail(vs))

\* index of the first card whose id is card_id, 0 for None, or an exception
RECURSIVE find_card_from(_, _, _)
find_card_from(cs, card_id, i) ==
  IF i > Len(cs) THEN [raised |-> JNull, idx |-> 0]
  ELSE LET v == GetItem(cs[i], K_id) IN
       IF IsRaise(v) THEN [raised |-> v, idx |-> 0]
       ELSE IF v.t = "str" /\ v.s = card_id THEN [raised |-> JNull, idx |-> i]
       ELSE find_card_from(cs, card_id, i + 1)

\* line 132: `for c in cards` raises TypeError on a value that cannot be
\* iterated
find_card(cards, card_id) ==
  IF ~Iterable(cards) THEN [raised |-> Raise("TypeError"), idx |-> 0]
  ELSE find_card_from(Items(cards), card_id, 1)

\* list_cards reads id, front and back of every card in turn
list_cards(cards) ==
  FirstRaise([j \in 1..(3 * Len(Items(cards))) |->
     LET c == Items(cards)[((j - 1) \div 3) + 1] IN
     CASE (j - 1) % 3 = 0 -> GetItem(c, K_id)
       [] (j - 1) % 3 = 1 -> GetItem(c, K_front)
       [] OTHER -> GetItem(c, K_back)])

\* a remove that takes two cards of the same front and back for the same card
RECURSIVE ListRemoveSameText(_, _)
ListRemoveSameText(xs, x) ==
  IF xs = <<>> THEN <<>>
  ELSE IF /\ PyEq(GetItem(Head(xs), K_front), GetItem(x, K_front))
          /\ PyEq(GetItem(Head(xs), K_back), GetItem(x, K_back))
       THEN Tail(xs)
  ELSE <<Head(xs)>> \o ListRemoveSameText(Tail(xs), x)

\* list.remove(x): drops the first element equal to x
RECURSIVE ListRemove(_, _)
ListRemove(xs, x) ==
  IF xs = <<>> THEN <<>>
  ELSE IF PyEq(Head(xs), x) THEN Tail(xs)
  ELSE <<Head(xs)>> \o ListRemove(Tail(xs), x)

\* v.lower() of a field read from a card
LowerOf(v) ==
  IF IsRaise(v) THEN v
  ELSE IF v.t = "str" THEN JStr(Lower(v.s)) ELSE Raise("AttributeError")

\* the search predicate on one card: "hit", "miss", or the exception
SearchOne(c, q) ==
  LET f == LowerOf(GetItem(c, K_front)) IN
  IF IsRaise(f) THEN f
  ELSE IF Contains(q, f.s) THEN JStr(<<"y">>)
  ELSE LET b == LowerOf(GetItem(c, K_back)) IN
       IF IsRaise(b) THEN b
       ELSE IF Contains(q, b.s) THEN JStr(<<"y">>) ELSE JStr(<<"n">>)

\* the sum of len(get_cards(d, c)) over the collections names, whatever
\* "cards" holds; a collection whose len() raises has no count and adds none
RECURSIVE CountCards(_, _)
CountCards(d, names) ==
  IF names = <<>> THEN 0
  ELSE (IF PyLen(get_cards(d, Head(names))) >= 0
        THEN PyLen(get_cards(d, Head(names))) ELSE 0)
       + CountCards(d, Tail(names))

TotalCards(d) == CountCards(d, Names(d))

(***************************************************************************)
(* Inputs                                                                  *)
(***************************************************************************)
\* lines typed at a numeric menu prompt
MenuLines ==
  { <<"0">>, <<"1">>, <<"2">>, <<"3">>, <<"4">>, <<"5">>,
    <<" ", "1">>, <<"9">>, <<"x">>, <<>> }
\* lines typed at the collection name prompt
NameLines == { <<>>, <<" ">>, <<"a">>, <<" ", "a", " ">>, <<"b">> }
\* lines typed at the front or back prompt of add_card
TextLines == { <<>>, <<" ">>, <<" ", "a", " ">> }
\* lines typed at the search prompt
SearchLines == { <<>>, <<"a">>, <<" ", "b">>, <<"x">> }
\* lines typed at the front prompt of edit_card
EditFrontLines == { <<>>, <<" ">>, <<" ", "a", " ">> }
\* lines typed at the back prompt of edit_card
EditBackLines == { <<>>, <<" ">>, <<"a">>, <<" ", "b", " ">> }
\* lines typed at a card id prompt
IdLines == { <<>>, <<"1">>, <<" ", "2">>, <<"9">> }
\* lines typed at a y/n prompt
ConfirmLines == { <<"y">>, <<" ", "Y", "E", "S">>, <<"n">>, <<"N", "O">>, <<"x">>, <<>> }
\* lines typed at the judgment prompt
JudgeLines ==
  { <<"y">>, <<"Y", "E", "S">>, <<"n">>, <<"n", "o">>, <<"s">>,
    <<"s", "k", "i", "p">>, <<" ", "q">>, <<"q", "u", "i", "t">>, <<"x">>, <<>> }
\* lines typed where the text of the line is not looked at
AnyLines == { <<>>, <<"q">> }
\* the values uuid.uuid4().hex[:8] can take, cut down to two
IdSpace == { <<"1">>, <<"2">> }

(***************************************************************************)
(* Content of flashcards.json when the program is first started            *)
(***************************************************************************)
Entry(cards) == JObj(<< <<K_cards, cards>> >>)

Registry(cols) == JObj(<< <<K_collections, cols>> >>)

\* {"collections": {"a": {"cards": [{"id": "1", "front": "a", "back": "b"}]}}}
DocOneCard ==
  Registry(JObj(<< << <<"a">>, Entry(JArr(<<NewCard(<<"1">>, <<"a">>, <<"b">>)>>)) >> >>))
\* {"collections": {"a": {"cards": [c1, c2, c3]}}}, the cards with ids "1",
\* "2", "3", front "b" and back "a"
DocThreeCards ==
  Registry(JObj(<< << <<"a">>,
     Entry(JArr(<< NewCard(<<"1">>, <<"b">>, <<"a">>),
                   NewCard(<<"2">>, <<"b">>, <<"a">>),
                   NewCard(<<"3">>, <<"b">>, <<"a">>) >>)) >> >>))
\* {"collections": null}
DocColsNull == Registry(JNull)
\* {"collections": {"a": null}}
DocEntryNull == Registry(JObj(<< << <<"a">>, JNull >> >>))
\* {"collections": {"a": {"cards": {}}}}
DocCardsObj == Registry(JObj(<< << <<"a">>, Entry(JObj(<<>>)) >> >>))
\* {"collections": {"a": {"cards": [{"id": "1", "front": "a"}]}}}
DocCardNoBack ==
  Registry(JObj(<< << <<"a">>,
     Entry(JArr(<< JObj(<< <<K_id, JStr(<<"1">>)>>, <<K_front, JStr(<<"a">>)>> >>) >>)) >> >>))
\* {"collections": {"a": {"cards": [{"id": "1"}]}}}
DocCardNoFront ==
  Registry(JObj(<< << <<"a">>, Entry(JArr(<< JObj(<< <<K_id, JStr(<<"1">>)>> >>) >>)) >> >>))

InitialFiles ==
  { File("absent", <<>>), File("unopenable", <<>>), File("badutf8", <<>>),
    TextFile(<<>>), TextFile(<<Tok("{")>>), TextFile(Dump(JArr(<<>>))),
    TextFile(Dump(JObj(<<>>))), TextFile(Dump(default_data)),
    TextFile(Dump(DocOneCard)), TextFile(Dump(DocThreeCards)),
    TextFile(Dump(DocColsNull)),
    TextFile(Dump(DocEntryNull)), TextFile(Dump(DocCardsObj)),
    TextFile(Dump(DocCardNoFront)), TextFile(Dump(DocCardNoBack)) }

(***************************************************************************)
(* State                                                                   *)
(***************************************************************************)
VARIABLES
  disk,       \* flashcards.json
  data,       \* the data object of main()
  pc,         \* the input() call the program is blocked at, or its end
  ret,        \* the menu loop the running operation was called from
  col_name,   \* col_name of collection_menu / manage_cards_menu
  name,       \* name chosen in delete_collection
  front,      \* front read by add_card
  card_id,    \* card_id read by edit_card / delete_card
  new_front,  \* new_front read by edit_card
  learn,      \* locals of learn_mode: cards, order, idx, correct, wrong,
              \* skipped; and what the session has printed: the cards
              \* presented so far (seen) and the closing counts (report)
  out,        \* the message this prompt was reached with (or the exception
              \* that ended the run)
  saved       \* how the last step's call of save_data ended, "none" if none

vars == <<disk, data, pc, ret, col_name, name, front, card_id, new_front,
          learn, out, saved>>

NoLearn ==
  [cards |-> <<>>, order |-> 0, idx |-> 0, correct |-> 0, wrong |-> 0,
   skipped |-> 0, seen |-> <<>>, report |-> <<>>]

Init ==
  /\ disk \in InitialFiles
  /\ data = JNull
  /\ pc = "start"
  /\ ret = "main_menu"
  /\ col_name = <<>>
  /\ name = <<>>
  /\ front = <<>>
  /\ card_id = <<>>
  /\ new_front = <<>>
  /\ learn = NoLearn
  /\ out = ""
  /\ saved = "none"

\* the locals of the operations are dead
NoLocals ==
  /\ name' = <<>>
  /\ front' = <<>>
  /\ card_id' = <<>>
  /\ new_front' = <<>>
  /\ learn' = NoLearn

\* nothing is written, in memory or on disk
NoWrite == data' = data /\ disk' = disk /\ saved' = "none"

\* the process dies with an unhandled exception e, and its data object with it
Crash(e) ==
  /\ pc' = "crashed"
  /\ out' = e.s[1]
  /\ data' = JNull
  /\ disk' = disk
  /\ saved' = "none"
  /\ ret' = "main_menu"
  /\ col_name' = <<>>
  /\ NoLocals

\* the line is rejected: notice m is printed and the same input() call is
\* made again, with every variable of the program as it was
Again(m) == UNCHANGED vars

\* the program blocks at prompt p, showing msg, without having written
Prompt(p, msg) == pc' = p /\ out' = msg /\ NoWrite

\* what the top of menu loop m runs before it prompts: JNull, or an exception
MenuTop(m, d, col) ==
  IF m = "main_menu" THEN
    (IF IsRaise(list_collections(d)) THEN list_collections(d) ELSE JNull)
  ELSE IF IsRaise(get_cards(d, col)) THEN get_cards(d, col)
  ELSE IF PyLen(get_cards(d, col)) < 0 THEN Raise("TypeError")
  ELSE JNull

\* control reaches the top of menu loop m with message msg on the screen
Enter(m, d, col, msg) ==
  IF IsRaise(MenuTop(m, d, col)) THEN Crash(MenuTop(m, d, col))
  ELSE /\ pc' = m
       /\ out' = msg
       /\ data' = d
       /\ disk' = disk
       /\ saved' = "none"
       /\ ret' = m
       /\ col_name' = col
       /\ NoLocals

\* the operation called from menu loop m returns with message msg: pause()
Pause(m, msg) ==
  /\ Prompt("pause", msg)
  /\ ret' = m
  /\ col_name' = col_name
  /\ NoLocals

\* data has become d and save_data(d) is called; then print(msg) and pause().
\* A failed save_data ends the process, and with it the data object.
Commit(d, msg) ==
  LET toks == Dump(d) IN
  \E o \in SaveOutcomes(disk, toks) :
    /\ saved' = o.kind
    /\ data' = IF o.kind = "ok" THEN d ELSE JNull
    /\ disk' = save_data(disk, toks, o)
    /\ pc' = IF o.kind = "ok" THEN "pause" ELSE "crashed"
    /\ out' = IF o.kind = "ok" THEN msg ELSE "OSError"
    /\ ret' = IF o.kind = "ok" THEN ret ELSE "main_menu"
    /\ col_name' = IF o.kind = "ok" THEN col_name ELSE <<>>
    /\ NoLocals

(***************************************************************************)
(* main: start of the process, and the main menu loop                      *)
(***************************************************************************)
\* lines 335-340: the process is started (again)
main_start ==
  /\ pc \in {"start", "exited", "crashed"}
  /\ IF IsRaise(load_data(disk))
     THEN Crash(load_data(disk))
     ELSE Enter("main_menu", load_data(disk), <<>>, "Terminal Flashcards")

\* lines 350-371: one line at the main menu
main_line(line) ==
  /\ pc = "main_menu"
  /\
       LET r == prompt_int(line, 0, 4)
           cols == Names(data)
       IN
       IF ~r.ok THEN Again("Please enter a number")
       ELSE /\ CASE r.v = 0 ->
                      /\ Prompt("exited", "Bye!")
                      /\ ret' = "main_menu" /\ col_name' = <<>> /\ NoLocals
                 [] r.v = 1 ->
                      /\ Prompt("create_name", "New collection name: ")
                      /\ ret' = "main_menu" /\ col_name' = <<>> /\ NoLocals
                 [] r.v = 2 ->
                      IF cols = <<>>
                      THEN Enter("main_menu", data, <<>>, "Nothing to select.")
                      ELSE /\ Prompt("open_select", "Open which collection?")
                           /\ ret' = "main_menu" /\ col_name' = <<>> /\ NoLocals
                 [] r.v = 3 ->
                      LET lens == [i \in 1..Len(cols) |->
                                     IF IsRaise(get_cards(data, cols[i]))
                                     THEN get_cards(data, cols[i])
                                     ELSE IF PyLen(get_cards(data, cols[i])) < 0
                                     THEN Raise("TypeError") ELSE JNull]
                      IN IF IsRaise(FirstRaise(lens)) THEN Crash(FirstRaise(lens))
                         ELSE Pause("main_menu",
                                    IF cols = <<>> THEN "(No collections yet.)"
                                    ELSE "collections listed")
                 [] OTHER ->
                      IF cols = <<>>
                      THEN Pause("main_menu", "Nothing to select.")
                      ELSE /\ Prompt("delcol_select", "Delete which collection?")
                           /\ ret' = "main_menu" /\ col_name' = <<>> /\ NoLocals

main == \E line \in MenuLines : main_line(line)

\* pause(): any line returns to the menu loop the operation was called from
pause_line(line) ==
  /\ pc = "pause"
  /\
       /\ Enter(ret, data, col_name, "menu")

pause == \E line \in AnyLines : pause_line(line)

(***************************************************************************)
(* Collections                                                             *)
(***************************************************************************)
\* a create_collection without the test of line 99
create_collection_overwrite(line) ==
  /\ pc = "create_name"
  /\
       LET nm == prompt_nonempty(line)
           cols == GetItem(data, K_collections)
       IN
       IF nm = <<>> THEN Again("Input cannot be empty.")
       ELSE LET d == SetItem(data, K_collections,
                            SetItem(cols, nm, Entry(JArr(<<>>))))
            IN Commit(d, "Created collection")

\* lines 97-104: one line at "New collection name: "
create_collection_line(line) ==
  /\ pc = "create_name"
  /\
       LET nm == prompt_nonempty(line)
           cols == GetItem(data, K_collections)
       IN
       IF nm = <<>> THEN Again("Input cannot be empty.")
       ELSE IF HasKey(cols, nm)
       THEN Pause("main_menu", "A collection with that name already exists.")
       ELSE LET d == SetItem(data, K_collections,
                            SetItem(cols, nm, Entry(JArr(<<>>))))
            IN Commit(d, "Created collection")

create_collection == \E line \in NameLines : create_collection_line(line)

\* lines 107-111: one line at the "Delete which collection?" list
delete_collection_select_line(line) ==
  /\ pc = "delcol_select"
  /\
       LET r == select_from_list(line, Names(data)) IN
       IF r.again THEN Again("Please enter a number")
       ELSE /\ IF r.none \/ r.val = <<>>
               THEN Pause("main_menu", "cancelled")
               ELSE /\ Prompt("delcol_confirm", "Delete collection and ALL its cards?")
                    /\ name' = r.val
                    /\ UNCHANGED <<ret, col_name, front, card_id, new_front, learn>>

delete_collection_select == \E line \in MenuLines : delete_collection_select_line(line)

\* lines 112-115: one line at the confirmation of delete_collection
delete_collection_confirm_line(line) ==
  /\ pc = "delcol_confirm"
  /\
       CASE confirm(line) = "again" -> Again("Please type y or n.")
         [] confirm(line) = "no" -> Pause("main_menu", "not deleted")
         [] OTHER ->
              LET d == SetItem(data, K_collections,
                               DelItem(GetItem(data, K_collections), name))
              IN Commit(d, "Deleted.")

delete_collection_confirm == \E line \in ConfirmLines : delete_collection_confirm_line(line)

\* lines 327-332: one line at the "Open which collection?" list
open_collection_line(line) ==
  /\ pc = "open_select"
  /\
       LET r == select_from_list(line, Names(data)) IN
       IF r.again THEN Again("Please enter a number")
       ELSE /\ IF r.none \/ r.val = <<>>
               THEN Enter("main_menu", data, <<>>, "menu")
               ELSE Enter("col_menu", data, r.val, "menu")

open_collection == \E line \in MenuLines : open_collection_line(line)

(***************************************************************************)
(* Menus of one collection                                                 *)
(***************************************************************************)
\* a collection menu whose learn choice does not look whether there are cards
collection_menu_learn_unchecked(line) ==
  /\ pc = "col_menu"
  /\
       LET r == prompt_int(line, 0, 3)
           cards == Items(get_cards(data, col_name))
       IN
       IF ~r.ok THEN Again("Please enter a number")
       ELSE /\ CASE r.v = 0 -> Enter("main_menu", data, <<>>, "menu")
                 [] r.v = 1 ->
                      /\ Prompt("learn_order", "Learn mode:")
                      /\ learn' = [NoLearn EXCEPT !.cards = cards]
                      /\ UNCHANGED <<ret, col_name, name, front, card_id, new_front>>
                 [] r.v = 2 ->
                      /\ TotalCards(data) < MaxCards
                      /\ Prompt("add_front", "Front: ")
                      /\ UNCHANGED <<ret, col_name, name, front, card_id, new_front, learn>>
                 [] OTHER -> Enter("manage_menu", data, col_name, "menu")

\* lines 302-324: one line at the collection menu
collection_menu_line(line) ==
  /\ pc = "col_menu"
  /\
       LET r == prompt_int(line, 0, 3)
           cards == Items(get_cards(data, col_name))
       IN
       IF ~r.ok THEN Again("Please enter a number")
       ELSE /\ CASE r.v = 0 -> Enter("main_menu", data, <<>>, "menu")
                 [] r.v = 1 ->
                      IF cards = <<>>
                      THEN Pause("col_menu", "No cards to learn yet.")
                      ELSE /\ Prompt("learn_order", "Learn mode:")
                           /\ learn' = [NoLearn EXCEPT !.cards = cards]
                           /\ UNCHANGED <<ret, col_name, name, front, card_id, new_front>>
                 [] r.v = 2 ->
                      /\ TotalCards(data) < MaxCards
                      /\ Prompt("add_front", "Front: ")
                      /\ UNCHANGED <<ret, col_name, name, front, card_id, new_front, learn>>
                 [] OTHER -> Enter("manage_menu", data, col_name, "menu")

\* lines 267-299: one line at the manage cards menu
manage_cards_menu_line(line) ==
  /\ pc = "manage_menu"
  /\
       LET r == prompt_int(line, 0, 5)
           cards == get_cards(data, col_name)
       IN
       IF ~r.ok THEN Again("Please enter a number")
       ELSE /\ CASE r.v = 0 -> Enter("col_menu", data, col_name, "menu")
                 [] r.v = 1 ->
                      IF Falsy(cards) THEN Pause("manage_menu", "(No cards yet.)")
                      ELSE IF IsRaise(list_cards(cards)) THEN Crash(list_cards(cards))
                      ELSE Pause("manage_menu", "Cards:")
                 [] r.v = 2 ->
                      /\ TotalCards(data) < MaxCards
                      /\ Prompt("add_front", "Front: ")
                      /\ UNCHANGED <<ret, col_name, name, front, card_id, new_front, learn>>
                 [] r.v = 3 ->
                      IF Falsy(cards) THEN Pause("manage_menu", "No cards to edit.")
                      ELSE IF IsRaise(list_cards(cards)) THEN Crash(list_cards(cards))
                      ELSE /\ Prompt("edit_id", "Enter card id to edit: ")
                           /\ UNCHANGED <<ret, col_name, name, front, card_id, new_front, learn>>
                 [] r.v = 4 ->
                      IF Falsy(cards) THEN Pause("manage_menu", "No cards to delete.")
                      ELSE IF IsRaise(list_cards(cards)) THEN Crash(list_cards(cards))
                      ELSE /\ Prompt("delcard_id", "Enter card id to delete: ")
                           /\ UNCHANGED <<ret, col_name, name, front, card_id, new_front, learn>>
                 [] OTHER ->
                      IF Falsy(cards) THEN Pause("manage_menu", "No cards to search.")
                      ELSE /\ Prompt("search_q", "Search text: ")
                           /\ UNCHANGED <<ret, col_name, name, front, card_id, new_front, learn>>

manage_cards_menu == \E line \in MenuLines : manage_cards_menu_line(line)

(***************************************************************************)
(* Cards                                                                   *)
(***************************************************************************)
\* lines 125-126: the card list after the new card has been appended
AppendCard(cards, id, f, b) == JArr(Append(cards.xs, NewCard(id, f, b)))

\* line 123: one line at "Front: "
add_card_front_line(line) ==
  /\ pc = "add_front"
  /\
       IF prompt_nonempty(line) = <<>> THEN Again("Input cannot be empty.")
       ELSE /\ Prompt("add_back", "Back: ")
            /\ front' = prompt_nonempty(line)
            /\ UNCHANGED <<ret, col_name, name, card_id, new_front, learn>>

add_card_front == \E line \in TextLines : add_card_front_line(line)

\* lines 124-128: one line at "Back: "
add_card_back_line(line) ==
  /\ pc = "add_back"
  /\
       LET back == prompt_nonempty(line)
           cards == get_cards(data, col_name)
       IN
       IF back = <<>> THEN Again("Input cannot be empty.")
       ELSE IF cards.t # "arr" THEN Crash(Raise("AttributeError"))
       ELSE \E id \in IdSpace :
              LET d == WithCards(data, col_name, AppendCard(cards, id, front, back)) IN
              Commit(d, "Added card")

add_card_back == \E line \in TextLines : add_card_back_line(line)

\* an edit that assigns both answers whether blank or not
EditFieldsAlways(card, nf, nb) ==
  SetItem(SetItem(card, K_front, JStr(Strip(nf))), K_back, JStr(Strip(nb)))

\* lines 164-167: the card after the two answers of edit_card
EditFields(card, nf, nb) ==
  LET c1 == IF Strip(nf) # <<>> THEN SetItem(card, K_front, JStr(Strip(nf))) ELSE card
  IN IF Strip(nb) # <<>> THEN SetItem(c1, K_back, JStr(Strip(nb))) ELSE c1

\* lines 154-158: one line at "Enter card id to edit: "
edit_card_id_line(line) ==
  /\ pc = "edit_id"
  /\
       LET id == prompt_nonempty(line)
           f == find_card(get_cards(data, col_name), id)
       IN
       IF id = <<>> THEN Again("Input cannot be empty.")
       ELSE /\ IF IsRaise(f.raised) THEN Crash(f.raised)
               ELSE IF f.idx = 0 THEN Pause(ret, "Card id not found.")
               ELSE /\ Prompt("edit_front", "Front [..]: ")
                    /\ card_id' = id
                    /\ UNCHANGED <<ret, col_name, name, front, new_front, learn>>

edit_card_id == \E line \in IdLines : edit_card_id_line(line)

\* line 161: one line at "Front [..]: "
edit_card_front_line(line) ==
  /\ pc = "edit_front"
  /\
       /\ Prompt("edit_back", "Back [..]: ")
       /\ new_front' = line
       /\ UNCHANGED <<ret, col_name, name, front, card_id, learn>>

edit_card_front == \E line \in EditFrontLines : edit_card_front_line(line)

\* lines 162-170: one line at "Back [..]: "
edit_card_back_line(line) ==
  /\ pc = "edit_back"
  /\
       LET cards == get_cards(data, col_name)
           i == find_card(cards, card_id).idx
           d == WithCards(data, col_name,
                  JArr([cards.xs EXCEPT ![i] = EditFields(cards.xs[i], new_front, line)]))
       IN Commit(d, "Updated.")

edit_card_back == \E line \in EditBackLines : edit_card_back_line(line)

\* lines 180-184: one line at "Enter card id to delete: "
delete_card_id_line(line) ==
  /\ pc = "delcard_id"
  /\
       LET id == prompt_nonempty(line)
           f == find_card(get_cards(data, col_name), id)
       IN
       IF id = <<>> THEN Again("Input cannot be empty.")
       ELSE /\ IF IsRaise(f.raised) THEN Crash(f.raised)
               ELSE IF f.idx = 0 THEN Pause(ret, "Card id not found.")
               ELSE /\ Prompt("delcard_confirm", "Delete card?")
                    /\ card_id' = id
                    /\ UNCHANGED <<ret, col_name, name, front, new_front, learn>>

delete_card_id == \E line \in IdLines : delete_card_id_line(line)

\* lines 186-189: one line at the confirmation of delete_card
delete_card_confirm_line(line) ==
  /\ pc = "delcard_confirm"
  /\
       LET cards == get_cards(data, col_name)
           card == cards.xs[find_card(cards, card_id).idx]
           d == WithCards(data, col_name, JArr(ListRemove(cards.xs, card)))
       IN
       CASE confirm(line) = "again" -> Again("Please type y or n.")
         [] confirm(line) = "no" -> Pause(ret, "not deleted")
         [] OTHER -> Commit(d, "Deleted.")

delete_card_confirm == \E line \in ConfirmLines : delete_card_confirm_line(line)

\* line 197: the cards the filter keeps, res[i] being its verdict on cards[i]
RECURSIVE Hits(_, _)
Hits(cards, res) ==
  IF cards = <<>> THEN <<>>
  ELSE (IF Head(res).s = <<"y">> /\ ~IsRaise(Head(res)) THEN <<Head(cards)>> ELSE <<>>)
       \o Hits(Tail(cards), Tail(res))

\* lines 192-203: one line at "Search text: "
search_cards_line(line) ==
  /\ pc = "search_q"
  /\
       LET q == Lower(prompt_nonempty(line))
           cards == Items(get_cards(data, col_name))
           res == [i \in 1..Len(cards) |-> SearchOne(cards[i], q)]
           hits == Hits(cards, res)
       IN
       IF q = <<>> THEN Again("Input cannot be empty.")
       ELSE /\ IF IsRaise(FirstRaise(res)) THEN Crash(FirstRaise(res))
               ELSE IF hits = <<>> THEN Pause(ret, "No matches.")
               ELSE IF IsRaise(list_cards(JArr(hits))) THEN Crash(list_cards(JArr(hits)))
               ELSE Pause(ret, "Matches")

search_cards == \E line \in SearchLines : search_cards_line(line)

(***************************************************************************)
(* Learn mode                                                              *)
(***************************************************************************)
\* a shuffle that draws every position afresh, with repetition
ShufflesWithRepeats(xs) ==
  { [i \in 1..Len(xs) |-> xs[p[i]]] : p \in [1..Len(xs) -> 1..Len(xs)] }

\* the orders random.shuffle can leave a list in
Shuffles(xs) ==
  { [i \in 1..Len(xs) |-> xs[p[i]]] :
      p \in { f \in [1..Len(xs) -> 1..Len(xs)] :
                \A i, j \in 1..Len(xs) : i # j => f[i] # f[j] } }

\* lines 228-231 print id and front of card c: JNull, or the exception
ShowFront(c) == FirstRaise(<<GetItem(c, K_id), GetItem(c, K_front)>>)

\* lines 253 and 259-261: the counts printed when the session ends
Tallies(l) ==
  << <<"Correct", l.correct>>, <<"Wrong", l.wrong>>, <<"Skipped", l.skipped>> >>

\* the for loop of line 226 moves to card number i of session l
NextCard(l, i) ==
  IF i > Len(l.cards)
  THEN /\ Prompt("pause", "Done!")
       /\ learn' = [l EXCEPT !.report = Tallies(l)]
       /\ UNCHANGED <<ret, col_name, name, front, card_id, new_front>>
  ELSE IF IsRaise(ShowFront(l.cards[i])) THEN Crash(ShowFront(l.cards[i]))
  ELSE /\ Prompt("learn_front", "FRONT:")
       /\ learn' = [l EXCEPT !.idx = i, !.seen = Append(@, l.cards[i])]
       /\ UNCHANGED <<ret, col_name, name, front, card_id, new_front>>

\* an ordering prompt that shuffles on "1" and keeps the order on "2"
learn_mode_order_swapped(line) ==
  /\ pc = "learn_order"
  /\
       LET r == prompt_int(line, 1, 2) IN
       IF ~r.ok THEN Again("Please enter a number")
       ELSE /\ \E cs \in (IF r.v = 1 THEN Shuffles(learn.cards) ELSE {learn.cards}) :
                 NextCard([learn EXCEPT !.cards = cs, !.order = r.v], 1)

\* lines 218-233: one line at the ordering prompt
learn_mode_order_line(line) ==
  /\ pc = "learn_order"
  /\
       LET r == prompt_int(line, 1, 2) IN
       IF ~r.ok THEN Again("Please enter a number")
       ELSE /\ \E cs \in (IF r.v = 2 THEN Shuffles(learn.cards) ELSE {learn.cards}) :
                 NextCard([learn EXCEPT !.cards = cs, !.order = r.v], 1)

learn_mode_order == \E line \in MenuLines : learn_mode_order_line(line)

\* a reveal prompt that takes a quit answer for the end of the session
learn_mode_reveal_quits(line) ==
  /\ pc = "learn_front"
  /\
       /\ IF Lower(Strip(line)) \in Quit
          THEN /\ Prompt("pause", "Session ended early.")
               /\ learn' = [learn EXCEPT !.report = Tallies(learn)]
               /\ UNCHANGED <<ret, col_name, name, front, card_id, new_front>>
          ELSE IF IsRaise(GetItem(learn.cards[learn.idx], K_back))
          THEN Crash(GetItem(learn.cards[learn.idx], K_back))
          ELSE /\ Prompt("learn_judge", "BACK:")
               /\ UNCHANGED <<ret, col_name, name, front, card_id, new_front, learn>>

\* lines 233-237: the line that reveals the back
learn_mode_reveal_line(line) ==
  /\ pc = "learn_front"
  /\
       /\ IF IsRaise(GetItem(learn.cards[learn.idx], K_back))
          THEN Crash(GetItem(learn.cards[learn.idx], K_back))
          ELSE /\ Prompt("learn_judge", "BACK:")
               /\ UNCHANGED <<ret, col_name, name, front, card_id, new_front, learn>>

learn_mode_reveal == \E line \in AnyLines : learn_mode_reveal_line(line)

\* a judgment prompt that takes any unknown answer for a skip
learn_mode_judge_other_skipped(line) ==
  /\ pc = "learn_judge"
  /\
       LET ans == Lower(Strip(line)) IN
       CASE ans \in Yes ->
              NextCard([learn EXCEPT !.correct = @ + 1], learn.idx + 1)
         [] ans \in No ->
              NextCard([learn EXCEPT !.wrong = @ + 1], learn.idx + 1)
         [] ans \in Quit ->
              /\ Prompt("pause", "Session ended early.")
              /\ learn' = [learn EXCEPT !.report = Tallies(learn)]
              /\ UNCHANGED <<ret, col_name, name, front, card_id, new_front>>
         [] OTHER ->
              NextCard([learn EXCEPT !.skipped = @ + 1], learn.idx + 1)

\* a judgment prompt that counts a wrong answer as a correct one
learn_mode_judge_wrong_as_correct(line) ==
  /\ pc = "learn_judge"
  /\
       LET ans == Lower(Strip(line)) IN
       CASE ans \in Yes ->
              NextCard([learn EXCEPT !.correct = @ + 1], learn.idx + 1)
         [] ans \in No ->
              NextCard([learn EXCEPT !.correct = @ + 1], learn.idx + 1)
         [] ans \in Skip ->
              NextCard([learn EXCEPT !.skipped = @ + 1], learn.idx + 1)
         [] ans \in Quit ->
              /\ Prompt("pause", "Session ended early.")
              /\ learn' = [learn EXCEPT !.report = Tallies(learn)]
              /\ UNCHANGED <<ret, col_name, name, front, card_id, new_front>>
         [] OTHER -> Again("Please enter y, n, skip, or q.")

\* a judgment prompt that counts the card it is quit on as skipped
learn_mode_judge_quit_counted(line) ==
  /\ pc = "learn_judge"
  /\
       LET ans == Lower(Strip(line)) IN
       CASE ans \in Yes ->
              NextCard([learn EXCEPT !.correct = @ + 1], learn.idx + 1)
         [] ans \in No ->
              NextCard([learn EXCEPT !.wrong = @ + 1], learn.idx + 1)
         [] ans \in Skip ->
              NextCard([learn EXCEPT !.skipped = @ + 1], learn.idx + 1)
         [] ans \in Quit ->
              /\ Prompt("pause", "Session ended early.")
              /\ learn' = [learn EXCEPT !.skipped = @ + 1,
                                        !.report = Tallies([learn EXCEPT !.skipped = @ + 1])]
              /\ UNCHANGED <<ret, col_name, name, front, card_id, new_front>>
         [] OTHER -> Again("Please enter y, n, skip, or q.")

\* lines 239-261: one line at "Got it? (y/n/skip/q): "
learn_mode_judge_line(line) ==
  /\ pc = "learn_judge"
  /\
       LET ans == Lower(Strip(line)) IN
       CASE ans \in Yes ->
              NextCard([learn EXCEPT !.correct = @ + 1], learn.idx + 1)
         [] ans \in No ->
              NextCard([learn EXCEPT !.wrong = @ + 1], learn.idx + 1)
         [] ans \in Skip ->
              NextCard([learn EXCEPT !.skipped = @ + 1], learn.idx + 1)
         [] ans \in Quit ->
              /\ Prompt("pause", "Session ended early.")
              /\ learn' = [learn EXCEPT !.report = Tallies(learn)]
              /\ UNCHANGED <<ret, col_name, name, front, card_id, new_front>>
         [] OTHER -> Again("Please enter y, n, skip, or q.")

learn_mode_judge == \E line \in JudgeLines : learn_mode_judge_line(line)

(***************************************************************************)
(* The program                                                             *)
(***************************************************************************)
\* one line at the collection menu that does not start a drill session
collection_menu ==
  \E line \in MenuLines : collection_menu_line(line) /\ pc' # "learn_order"

\* "1" at the collection menu of a collection that has cards: learn_mode begins
learn_mode ==
  \E line \in MenuLines : collection_menu_line(line) /\ pc' = "learn_order"

\* Managing the registry: every menu and every operation on collections and
\* cards.  learn_mode works on a copy of the card list and writes neither
\* data nor the file; the sessions it runs are the steps NextLearn adds.
Next ==
  \/ main_start
  \/ main
  \/ pause
  \/ create_collection
  \/ delete_collection_select
  \/ delete_collection_confirm
  \/ open_collection
  \/ collection_menu
  \/ manage_cards_menu
  \/ add_card_front
  \/ add_card_back
  \/ edit_card_id
  \/ edit_card_front
  \/ edit_card_back
  \/ delete_card_id
  \/ delete_card_confirm
  \/ search_cards

Spec == Init /\ [][Next]_vars

\* The whole program: managing the registry, and drill sessions.
NextLearn ==
  \/ main_start
  \/ main
  \/ pause
  \/ create_collection
  \/ delete_collection_select
  \/ delete_collection_confirm
  \/ open_collection
  \/ collection_menu
  \/ manage_cards_menu
  \/ add_card_front
  \/ add_card_back
  \/ edit_card_id
  \/ edit_card_front
  \/ edit_card_back
  \/ delete_card_id
  \/ delete_card_confirm
  \/ search_cards
  \/ learn_mode
  \/ learn_mode_order
  \/ learn_mode_reveal
  \/ learn_mode_judge

SpecLearn == Init /\ [][NextLearn]_vars

(***************************************************************************)
(* Properties                                                              *)
(***************************************************************************)
Cols(d) == GetItem(d, K_collections)

\* the program is blocked at one of its prompts
AtPrompt == pc \notin {"start", "exited", "crashed"}

\* every other collection of d is in e, with the same cards in the same order
OthersKept(d, e, nm) ==
  \A k \in KeySet(Cols(d)) \ {nm} :
    HasKey(Cols(e), k) /\ GetItem(Cols(e), k) = GetItem(Cols(d), k)

\* no two cards of the list carry the same id
IdsUnique(cards) ==
  \A i, j \in 1..Len(cards.xs) :
    LET a == GetItem(cards.xs[i], K_id)
        b == GetItem(cards.xs[j], K_id)
    IN i < j /\ ~IsRaise(a) /\ ~IsRaise(b) => ~PyEq(a, b)

\* C1: no two cards stored in the same collection have the same id.
C1_UniqueIds ==
  Cols(data).t = "obj" =>
    \A k \in KeySet(Cols(data)) :
      get_cards(data, k).t = "arr" => IdsUnique(get_cards(data, k))

\* C2: whenever the program waits at a prompt, the in-memory registry is what
\* the file holds: no mutation is in memory only.
C2_WriteThrough == AtPrompt => PyEq(load_data(disk), data)

C2_Witness == pc = "pause" /\ saved = "ok" /\ out = "Updated."

\* C3: a mutating operation whose save fails leaves the registry as it was and
\* the program goes on to its next prompt.
C3_SaveFailureRecovered ==
  [][saved' \notin {"none", "ok"} => pc' # "crashed" /\ data' = data]_vars

\* C4: creating a collection under a name the registry already has changes
\* nothing in memory or on disk, saves nothing and reports the duplicate.
C4_DuplicateCreate ==
  [][\A line \in NameLines :
       (/\ create_collection_line(line)
        /\ Strip(line) # <<>>
        /\ Strip(line) \in KeySet(Cols(data)))
       => /\ data' = data
          /\ disk' = disk
          /\ saved' = "none"
          /\ pc' = "pause"
          /\ out' = "A collection with that name already exists."]_vars

C4_Witness ==
  /\ pc = "pause"
  /\ out = "A collection with that name already exists."
  /\ TotalCards(data) = 2

\* C5: a confirmed delete of a collection removes that collection, the one the
\* user picked from the list, and no other; the others keep name and cards.
C5_DeleteCollection ==
  [][/\ \A line \in MenuLines :
          delete_collection_select_line(line) /\ pc' = "delcol_confirm"
          => name' = Names(data)[ToInt(Strip(line))]
     /\ \A line \in ConfirmLines :
          delete_collection_confirm_line(line) /\ confirm(line) = "yes" /\ saved' = "ok"
          => /\ name \in KeySet(Cols(data))
             /\ KeySet(Cols(data')) = KeySet(Cols(data)) \ {name}
             /\ OthersKept(data, data', name)]_vars

C5_Witness ==
  /\ pc = "pause" /\ ret = "main_menu" /\ out = "Deleted."
  /\ Len(Cols(data).kv) = 1
  /\ TotalCards(data) = 1

\* the stores load_data answers with an empty registry: no file (line 18),
\* a file open() refuses or a text that is no JSON (line 26), a document
\* that is no object or has no "collections" (line 23)
BadStore(d) ==
  \/ d.st \in {"absent", "unopenable"}
  \/ /\ d.st = "text"
     /\ \/ IsRaise(json_load(d.toks))
        \/ json_load(d.toks).t # "obj"
        \/ ~HasKey(json_load(d.toks), K_collections)

\* C6: load never fails its caller; it returns an empty registry for a store
\* that is absent, unreadable, unparseable or without "collections", and the
\* stored document otherwise.
C6_LoadContract ==
  [][(pc \in {"start", "exited", "crashed"}) =>
       /\ out' # "UnicodeDecodeError"
       /\ (pc' = "main_menu" =>
             PyEq(data', IF BadStore(disk) THEN default_data
                         ELSE json_load(disk.toks)))]_vars

\* C7: whatever the file holds, the program never ends with an unhandled
\* error (a failing save and a failing load are C3 and C6).
C7_NeverCrashes == pc = "crashed" => out \in {"OSError", "UnicodeDecodeError"}

\* C8: the program started again after exit has the registry it had at exit.
C8_RestartRoundTrip ==
  [][pc = "exited" /\ pc' # "exited" => pc' = "main_menu" /\ PyEq(data', data)]_vars

C8_Witness ==
  /\ pc = "main_menu" /\ out = "Terminal Flashcards"
  /\ Len(Cols(data).kv) = 2
  /\ TotalCards(data) = 2

\* C9: a blank front or back stores nothing and asks again; a non-blank back
\* appends one card, with the trimmed non-empty front and back, at the end of
\* the collection and leaves every other card and collection as it was.
C9_AddCard ==
  [][\A line \in TextLines :
       /\ add_card_front_line(line) =>
            IF Strip(line) = <<>> THEN UNCHANGED vars
            ELSE data' = data /\ front' = Strip(line) /\ front' # <<>>
       /\ pc' # "crashed" /\ add_card_back_line(line) =>
            IF Strip(line) = <<>> THEN UNCHANGED vars
            ELSE LET old == get_cards(data, col_name).xs
                     new == get_cards(data', col_name).xs
                     card == new[Len(new)]
                 IN /\ Len(new) = Len(old) + 1
                    /\ SubSeq(new, 1, Len(old)) = old
                    /\ OthersKept(data, data', col_name)
                    /\ Keys(Cols(data')) = Keys(Cols(data))
                    /\ GetItem(card, K_id).s \in IdSpace
                    /\ GetItem(card, K_front) = JStr(Strip(front))
                    /\ GetItem(card, K_back) = JStr(Strip(line))
                    /\ Strip(front) # <<>>
                    /\ Strip(line) # <<>>]_vars

C9_Witness ==
  /\ pc = "pause" /\ out = "Added card"
  /\ PyLen(get_cards(data, col_name)) = 2
  /\ Len(Cols(data).kv) = 2

\* position of the first card of the list whose id is id
FirstWithId(cs, id) ==
  CHOOSE i \in 1..Len(cs) :
    /\ GetItem(cs[i], K_id) = JStr(id)
    /\ \A j \in 1..(i - 1) : GetItem(cs[j], K_id) # JStr(id)

\* C10: an edit replaces front (back) by the trimmed input when that is not
\* blank and keeps it otherwise; id, position, the other cards and the other
\* collections stay; with both inputs blank the card is as before.
C10_EditCard ==
  [][\A line \in EditBackLines :
       pc' = "pause" /\ edit_card_back_line(line) =>
         LET old == get_cards(data, col_name).xs
             new == get_cards(data', col_name).xs
             i == FirstWithId(old, card_id)
         IN /\ Len(new) = Len(old)
            /\ \A j \in 1..Len(old) : j # i => new[j] = old[j]
            /\ OthersKept(data, data', col_name)
            /\ Keys(Cols(data')) = Keys(Cols(data))
            /\ GetItem(new[i], K_id) = GetItem(old[i], K_id)
            /\ GetItem(new[i], K_front) =
                 IF Strip(new_front) # <<>> THEN JStr(Strip(new_front))
                 ELSE GetItem(old[i], K_front)
            /\ GetItem(new[i], K_back) =
                 IF Strip(line) # <<>> THEN JStr(Strip(line))
                 ELSE GetItem(old[i], K_back)
            /\ (GetItem(new[i], K_front) = JStr(<<>>) => GetItem(old[i], K_front) = JStr(<<>>))
            /\ (GetItem(new[i], K_back) = JStr(<<>>) => GetItem(old[i], K_back) = JStr(<<>>))
            /\ (Strip(new_front) = <<>> /\ Strip(line) = <<>> => new[i] = old[i])]_vars

C10_Witness ==
  /\ pc = "pause" /\ out = "Updated."
  /\ PyLen(get_cards(data, col_name)) = 2
  /\ \E i \in 1..2 :
       GetItem(get_cards(data, col_name).xs[i], K_front)
         # GetItem(get_cards(data, col_name).xs[i], K_back)

\* C11: a confirmed delete of a card removes one card, the first card of the
\* collection that has the id typed; the cards before it and after it keep
\* their contents and their order, and the other collections are as before.
C11_DeleteCard ==
  [][\A line \in ConfirmLines :
       pc' = "pause" /\ Lower(Strip(line)) \in Yes /\ delete_card_confirm_line(line) =>
         LET old == get_cards(data, col_name).xs
             new == get_cards(data', col_name).xs
             i == FirstWithId(old, card_id)
         IN /\ \E k \in 1..Len(old) : GetItem(old[k], K_id) = JStr(card_id)
            /\ Len(new) = Len(old) - 1
            /\ \A j \in 1..Len(new) : new[j] = IF j < i THEN old[j] ELSE old[j + 1]
            /\ OthersKept(data, data', col_name)
            /\ Keys(Cols(data')) = Keys(Cols(data))]_vars

\* a card has been deleted from the open collection, and the card of id "1"
\* is the one that remains
C11_Witness ==
  /\ pc = "pause" /\ out = "Deleted." /\ ret = "manage_menu"
  /\ PyLen(get_cards(data, col_name)) = 1
  /\ GetItem(get_cards(data, col_name).xs[1], K_id) = JStr(<<"1">>)
  /\ GetItem(get_cards(data, col_name).xs[1], K_front) = JStr(<<"a">>)
  /\ GetItem(get_cards(data, col_name).xs[1], K_back) = JStr(<<"a">>)
  /\ saved = "ok"

\* the step writes nothing: the registry, the file and the save log are as before
Untouched == data' = data /\ disk' = disk /\ saved' = "none"

\* no card of the open collection has the id typed on line
IdAbsent(line) ==
  \A k \in 1..Len(get_cards(data, col_name).xs) :
    GetItem(get_cards(data, col_name).xs[k], K_id) # JStr(Strip(line))

\* C12: an operation that is given a card id no card has (edit, delete card),
\* whose confirmation is declined (delete card, delete collection) or whose
\* selection is cancelled ends there: the registry in memory is unchanged,
\* nothing is saved, and the program goes on to the pause before the menu.
C12_AbortedOperation ==
  [][/\ \A line \in IdLines :
          (edit_card_id_line(line) \/ delete_card_id_line(line))
          /\ Strip(line) # <<>> /\ IdAbsent(line)
          => Untouched /\ pc' = "pause" /\ out' = "Card id not found."
     /\ \A line \in ConfirmLines :
          (delete_card_confirm_line(line) \/ delete_collection_confirm_line(line))
          /\ Lower(Strip(line)) \in No
          => Untouched /\ pc' = "pause"
     /\ \A line \in MenuLines :
          delete_collection_select_line(line) /\ Strip(line) = <<"0">>
          => Untouched /\ pc' = "pause"]_vars

\* an edit or a delete was given an id that no card of a collection of two has
C12_Witness ==
  /\ pc = "pause" /\ out = "Card id not found."
  /\ PyLen(get_cards(data, col_name)) = 2

\* a drill session is running, or has ended and its closing pause is on
InSession == pc \in {"learn_front", "learn_judge"} \/ (pc = "pause" /\ learn.order # 0)

\* the card list of the open collection as stored in the registry
Stored == Items(get_cards(data, col_name))

\* C13: in a session in order ("1"), the k-th card presented is the k-th
\* card of the stored list, for every card presented until the session ends.
C13_SequentialOrder ==
  InSession /\ learn.order = 1 =>
    /\ Len(learn.seen) <= Len(Stored)
    /\ \A k \in 1..Len(learn.seen) : learn.seen[k] = Stored[k]

\* the third card of a session in order is on the screen, and the three
\* cards presented differ
C13_Witness ==
  /\ pc = "learn_front" /\ learn.order = 1
  /\ Len(learn.seen) = 3
  /\ learn.seen[1] # learn.seen[2]
  /\ learn.seen[2] # learn.seen[3]
  /\ learn.seen[1] # learn.seen[3]

\* the step is a quit answer typed at the judgment prompt
QuitStep ==
  /\ pc = "learn_judge"
  /\ \E line \in JudgeLines : Lower(Strip(line)) \in Quit /\ learn_mode_judge_line(line)

\* what a quit on the k-th card does, but for what the closing report says:
\* the session ends at once with k cards presented, no further card is
\* presented, and the counters are those of the first k-1 judgments
QuitEnds ==
  /\ pc' = "pause" /\ out' = "Session ended early."
  /\ learn'.seen = learn.seen
  /\ Len(learn.seen) = learn.idx
  /\ learn'.correct = learn.correct
  /\ learn'.wrong = learn.wrong
  /\ learn'.skipped = learn.skipped
  /\ learn.correct + learn.wrong + learn.skipped = learn.idx - 1

\* C14 as claimed: a quit on the k-th card ends the session at once, and the
\* closing report states cards_seen = k besides the counters of the first
\* k-1 judgments.
C14_QuitReportsCardsSeen ==
  [][QuitStep =>
       /\ QuitEnds
       /\ \E i \in 1..Len(learn'.report) : learn'.report[i] = <<"cards_seen", learn.idx>>]_vars

\* C14 as amended: a quit on the k-th card ends the session at once, with k
\* cards presented and none after it; the closing report states the correct,
\* wrong and skipped counters, which are those of the first k-1 judgments,
\* and nothing else; the step after the closing pause is out of the session.
C14_QuitEndsSession ==
  [][/\ QuitStep =>
          /\ QuitEnds
          /\ learn'.report = << <<"Correct", learn.correct>>, <<"Wrong", learn.wrong>>,
                                <<"Skipped", learn.skipped>> >>
     /\ (pc = "pause" /\ pc' # "pause" => learn' = NoLearn)]_vars

\* the second of three cards was quit on after a wrong answer to the first
C14_Witness ==
  /\ pc = "pause" /\ out = "Session ended early."
  /\ Len(learn.cards) = 3 /\ Len(learn.seen) = 2
  /\ learn.report = << <<"Correct", 0>>, <<"Wrong", 1>>, <<"Skipped", 0>> >>

\* s holds the elements of t, each as often as t does
IsPermutation(s, t) ==
  /\ Len(s) = Len(t)
  /\ \E p \in [1..Len(t) -> 1..Len(t)] :
       /\ \A i, j \in 1..Len(t) : i # j => p[i] # p[j]
       /\ \A i \in 1..Len(t) : s[i] = t[p[i]]

\* C15: a session in random order ("2") that runs to its end has presented
\* every stored card exactly once; the order is drawn once, when the session
\* starts, and is the order the cards are presented in; no step of a session
\* changes the stored cards or the file, and none saves.
C15_RandomOrder ==
  [][/\ (pc' = "pause" /\ out' = "Done!" /\ learn'.order = 2
           => IsPermutation(learn'.seen, Stored) /\ Len(learn'.seen) = Len(Stored))
     /\ (pc = "learn_order" /\ learn'.order = 2 /\ pc' # "crashed"
           => IsPermutation(learn'.cards, Stored))
     /\ (pc \in {"learn_front", "learn_judge"} /\ pc' # "crashed"
           => /\ learn'.cards = learn.cards
              /\ learn'.seen = SubSeq(learn.cards, 1, Len(learn'.seen)))
     /\ (pc \in {"learn_order", "learn_front", "learn_judge"}
           => /\ disk' = disk /\ saved' = "none"
              /\ (pc' # "crashed" => data' = data))
     /\ (pc = "pause" /\ learn.order # 0 => Untouched)]_vars

\* a session in random order over three cards has run to its end, and the
\* order presented is not the stored order
C15_Witness ==
  /\ pc = "pause" /\ out = "Done!" /\ learn.order = 2
  /\ Len(learn.seen) = 3
  /\ learn.seen # Stored
  /\ saved = "none"

\* the three counters of session l after one more judgment of kind a
Judged(l, a) ==
  [correct |-> l.correct + (IF a \in Yes THEN 1 ELSE 0),
   wrong |-> l.wrong + (IF a \in No THEN 1 ELSE 0),
   skipped |-> l.skipped + (IF a \in Skip THEN 1 ELSE 0)]

\* the sum of the three counters of session l
Sum(l) == l.correct + l.wrong + l.skipped

\* C16: a correct, wrong or skipped answer adds one to its own counter and to
\* no other, and moves to the next card, or to the end after the last one;
\* while card j is on the screen the counters add up to j - 1, and when the
\* session has run to its end they add up to the number of cards of the
\* session, and are the counts reported.
C16_TallyInvariant ==
  [][/\ \A line \in JudgeLines :
          LET a == Lower(Strip(line)) IN
          /\ pc = "learn_judge" /\ pc' # "crashed"
          /\ a \in Yes \cup No \cup Skip /\ learn_mode_judge_line(line)
          => /\ learn'.correct = Judged(learn, a).correct
             /\ learn'.wrong = Judged(learn, a).wrong
             /\ learn'.skipped = Judged(learn, a).skipped
             /\ IF learn.idx < Len(learn.cards)
                THEN pc' = "learn_front" /\ learn'.idx = learn.idx + 1
                ELSE pc' = "pause" /\ out' = "Done!"
     /\ (pc' \in {"learn_front", "learn_judge"}
          => Sum(learn') = learn'.idx - 1 /\ Len(learn'.seen) = learn'.idx)
     /\ (pc' = "pause" /\ out' = "Done!"
          => /\ Sum(learn') = Len(learn'.cards)
             /\ Len(learn'.cards) = Len(Stored)
             /\ learn'.report = << <<"Correct", learn'.correct>>,
                                   <<"Wrong", learn'.wrong>>,
                                   <<"Skipped", learn'.skipped>> >>)]_vars

\* a session over three cards has run to its end with one answer of each kind
C16_Witness ==
  /\ pc = "pause" /\ out = "Done!"
  /\ learn.correct = 1 /\ learn.wrong = 1 /\ learn.skipped = 1
  /\ Len(learn.cards) = 3

\* the answers the judgment prompt takes
Judgments == Yes \cup No \cup Skip \cup Quit

\* C17: a line at the judgment prompt that is no correct, wrong, skip or quit
\* answer changes nothing: the counters, the card on the screen, the cards
\* still to come and the prompt are as before, so the same holds after any
\* number of such lines; the session leaves the judgment of a card only on
\* one of the four answers.
C17_InvalidJudgment ==
  [][/\ \A line \in JudgeLines :
          /\ pc = "learn_judge"
          /\ Lower(Strip(line)) \notin Judgments /\ learn_mode_judge_line(line)
          => /\ learn' = learn
             /\ pc' = "learn_judge"
             /\ UNCHANGED vars
     /\ (pc = "learn_judge" /\ (learn' # learn \/ pc' # pc)
          => \E line \in JudgeLines :
               Lower(Strip(line)) \in Judgments /\ learn_mode_judge_line(line))]_vars

\* the second card of a session is up for judgment, the first one was judged
\* wrong, and the prompt takes the unknown answer "x"
C17_Witness ==
  /\ pc = "learn_judge"
  /\ learn.idx = 2 /\ learn.wrong = 1 /\ Len(learn.cards) = 3
  /\ <<"x">> \in JudgeLines /\ Lower(Strip(<<"x">>)) \notin Judgments
  /\ ENABLED learn_mode_judge_line(<<"x">>)

\* the step is the learn choice ("1") typed at the menu of a collection that
\* has no cards
LearnOnEmpty ==
  /\ pc = "col_menu"
  /\ Stored = <<>>
  /\ \E line \in MenuLines :
       /\ prompt_int(line, 0, 3).ok /\ prompt_int(line, 0, 3).v = 1
       /\ collection_menu_line(line)

\* C18: learn chosen on a collection with no cards starts no session: the
\* program says there is nothing to learn and pauses, asks for no order,
\* presents no card and reports no counters, writes nothing, and the pause
\* returns to the menu of the same collection; a session that does run has
\* at least one card.
C18_NothingToLearn ==
  [][/\ (LearnOnEmpty
          => /\ pc' = "pause" /\ out' = "No cards to learn yet."
             /\ ret' = "col_menu" /\ col_name' = col_name
             /\ learn' = NoLearn
             /\ Untouched)
     /\ (pc = "pause" /\ out = "No cards to learn yet." /\ pc' # "pause"
          => /\ pc' = "col_menu" /\ col_name' = col_name
             /\ data' = data /\ disk' = disk
             /\ learn' = NoLearn)
     /\ (pc' \in {"learn_order", "learn_front", "learn_judge"}
          => learn'.cards # <<>>)
     /\ (learn'.report # <<>> => learn'.cards # <<>>)]_vars

\* the program pauses on the notice that collection "a", which is stored
\* with an empty card list, has nothing to learn
C18_Witness ==
  /\ pc = "pause" /\ out = "No cards to learn yet."
  /\ ret = "col_menu" /\ col_name = <<"a">>
  /\ get_cards(data, col_name) = JArr(<<>>)
  /\ learn = NoLearn

\* C19: each card of a session is presented, then revealed, then judged.
\* Whatever line is typed at the reveal prompt (a "q" included) only reveals
\* the back of the card on the screen: no counter moves and the session
\* does not end. The back is shown only by that step, the judgment prompt
\* is reached only through it, and the counters move, the next card comes
\* up and the session ends only from the judgment prompt.
C19_CardProtocol ==
  [][/\ \A line \in AnyLines :
          learn_mode_reveal_line(line) /\ pc' # "crashed"
          => /\ pc' = "learn_judge" /\ out' = "BACK:"
             /\ learn' = learn
     /\ (pc = "learn_front" => pc' \in {"learn_front", "learn_judge", "crashed"})
     /\ (pc' = "learn_judge" /\ pc # "learn_judge"
          => pc = "learn_front" /\ learn' = learn)
     /\ (out' = "BACK:" => pc' = "learn_judge")
     /\ (pc' = "learn_front" /\ pc # "learn_front"
          => \/ pc = "learn_order" /\ learn'.idx = 1
             \/ pc = "learn_judge" /\ learn'.idx = learn.idx + 1)
     /\ (learn'.order # 0 /\ <<learn'.correct, learn'.wrong, learn'.skipped>>
                                # <<learn.correct, learn.wrong, learn.skipped>>
          => pc = "learn_judge")
     /\ (pc' = "pause" /\ learn'.order # 0 /\ pc # "pause"
          => pc = "learn_judge")]_vars

\* the back of the second card of a session is on the screen, after the
\* first card was judged correct
C19_Witness ==
  /\ pc = "learn_judge" /\ out = "BACK:"
  /\ learn.idx = 2 /\ Len(learn.seen) = 2
  /\ learn.correct = 1 /\ learn.wrong = 0 /\ learn.skipped = 0
  /\ learn.report = <<>>

\* the prompts of a running session
SessionPrompts == {"learn_order", "learn_front", "learn_judge"}

\* the session has run through all its cards
Completed == pc = "pause" /\ out = "Done!"

\* the session was ended by a quit answer
TerminatedEarly == pc = "pause" /\ out = "Session ended early."

\* C20: a session started on a collection that has cards ends in exactly one
\* of two ways and in no other: completed, which is when every card of it
\* was judged and no answer was a quit, or terminated early, which is when
\* a quit was typed; it presents each card at most once, and none after it
\* has ended.
C20_SessionTerminates ==
  [][/\ (pc \in SessionPrompts
          => pc' \in SessionPrompts \/ Completed' \/ TerminatedEarly')
     /\ (pc \in SessionPrompts /\ Completed'
          => /\ ~QuitStep
             /\ Sum(learn') = Len(learn'.cards)
             /\ Len(learn'.seen) = Len(learn'.cards))
     /\ (pc \in SessionPrompts => (TerminatedEarly' <=> QuitStep))
     /\ Len(learn'.seen) <= Len(learn'.cards)
     /\ (pc = "pause" => pc' \notin {"learn_front", "learn_judge"})]_vars

====
